---- MODULE Spec2Model ----
(***************************************************************************)
(* Model of the coverage-area finder: the scraping service                 *)
(* (src/src/lib/FirecrawlService.ts) and the view that drives it           *)
(* (src/unnamed/part_001, CoverageAreaFinder, lines 1004-1662).            *)
(*                                                                         *)
(* Strings are sequences of atoms.  Addresses and cities are sequences of  *)
(* characters; page texts and error messages are sequences of tokens       *)
(* (words and the single blank " "), so that trim, replace, includes and   *)
(* toLowerCase are computed, not assumed.                                  *)
(***************************************************************************)
EXTENDS Integers, Sequences, FiniteSets, TLC

VARIABLES
    localStorage,     \* the item stored under API_KEY_STORAGE_KEY, or Null
    firecrawlApp,     \* the shared client handle: the key it was built with, or Null
    lastRequestTime,  \* FirecrawlService.lastRequestTime
    coverageCache,    \* FirecrawlService.coverageCache: cache key -> coverage
    now,              \* Date.now()
    call,             \* per caller: the service operation it is suspended in
    ret,              \* the service call that returned last, with its result
    dispatchLog,      \* history: the times rateLimitedRequest dispatched a request
    successes,        \* history: <<key, coverage>> of every successful scrape
    started,          \* number of service calls begun so far
    results,          \* the view's results: the number of the published list, 0 for []
    lists,            \* the business arrays the searches returned, objects shared
    runs,             \* history, per list: the state of its enrichment run and
                      \* the status updates it has published with setResults
    loading,          \* the view's loading flag
    coverageCheckInProgress,
    isApiKeyValid,
    firecrawlApiKey,  \* the text of the API key field
    fetch,            \* the map-data request awaiting its answer, if any
    toast,            \* the notifications raised by the last step that raised any
    selectedCategories,
    height,           \* the text of the antenna height field
    radiusManual,     \* the text of the radius field
    autoRadius,       \* the radius derived from the height
    lat,              \* the latitude taken from the coordinates field, a text
    lon,              \* the longitude taken from the coordinates field, a text
    task              \* per caller: the asynchronous function of the view it runs

serviceVars == <<localStorage, firecrawlApp, lastRequestTime, coverageCache, now,
                 call, ret, dispatchLog, successes, started>>

formVars == <<selectedCategories, height, radiusManual, autoRadius, lat, lon>>

viewVars == <<results, lists, runs, loading, coverageCheckInProgress, isApiKeyValid,
              firecrawlApiKey, fetch, toast, formVars, task>>

vars == <<serviceVars, viewVars>>

----------------------------------------------------------------------------
(* Bounds of the model *)

MaxCalls == 3        \* service calls begun in one behaviour
MaxTicks == 2        \* clock ticks in one behaviour
NumCallers == 2      \* asynchronous callers alive at once
MaxAddressLen == 4   \* length of the addresses tried on the validation
MaxCityLen == 3      \* length of the cities tried on the validation
MaxTextLen == 3      \* tokens in the page content tried on the classification
MaxSearches == 2     \* searches the user starts in one behaviour of the view
MaxBusinesses == 2   \* businesses one search returns
MaxViewTicks == 3    \* clock ticks in one behaviour of the view
MaxCoordLen == 3     \* length of the texts typed into the coordinates field

(* Program constants *)

REQUEST_DELAY == 2000

\* The clock.  Date.now() is far beyond REQUEST_DELAY when the page loads, so the
\* first request never waits; the clock moves in steps of half the delay.
StartTime == REQUEST_DELAY
Tick == REQUEST_DELAY \div 2
MaxTime == StartTime + MaxTicks * Tick

Null == "null"
Callers == 1..NumCallers

----------------------------------------------------------------------------
(* String helpers: the JavaScript built-ins the service uses *)

IsSpace(ch) == ch = " "

RECURSIVE TrimStart(_)
TrimStart(s) ==
    IF s # <<>> /\ IsSpace(Head(s)) THEN TrimStart(Tail(s)) ELSE s

RECURSIVE TrimEnd(_)
TrimEnd(s) ==
    IF s # <<>> /\ IsSpace(s[Len(s)])
    THEN TrimEnd(SubSeq(s, 1, Len(s) - 1))
    ELSE s

\* String.prototype.trim
trim(s) == TrimEnd(TrimStart(s))

\* String.prototype.includes
includes(s, sub) ==
    \E i \in 1..(Len(s) - Len(sub) + 1) : SubSeq(s, i, i + Len(sub) - 1) = sub

\* String.prototype.startsWith
startsWith(s, prefix) ==
    Len(s) >= Len(prefix) /\ SubSeq(s, 1, Len(prefix)) = prefix

\* address.replace(/[,\s]+/g, ' '): every run of commas and blanks becomes one blank
RECURSIVE ReplaceSeparatorRuns(_, _)
ReplaceSeparatorRuns(s, inRun) ==
    IF s = <<>> THEN <<>>
    ELSE IF Head(s) \in {",", " "}
         THEN (IF inRun THEN <<>> ELSE <<" ">>) \o ReplaceSeparatorRuns(Tail(s), TRUE)
         ELSE <<Head(s)>> \o ReplaceSeparatorRuns(Tail(s), FALSE)

\* the characters /[a-zA-Z0-9]/ matches, among those of the model's alphabet
Alphanumeric == {"a", "b", "1"}

----------------------------------------------------------------------------
(* FirecrawlService: pure parts *)

\* the validation without its alphanumeric test
validateAddressLengthsOnly(address, city) ==
    /\ address # <<>> /\ Len(trim(address)) >= 3
    /\ city # <<>> /\ Len(trim(city)) >= 2

\* validateAddress(address, city)
validateAddress(address, city) ==
    IF address = <<>> \/ Len(trim(address)) < 3 THEN FALSE
    ELSE IF city = <<>> \/ Len(trim(city)) < 2 THEN FALSE
    ELSE LET cleanAddress == trim(ReplaceSeparatorRuns(address, FALSE)) IN
         IF cleanAddress = <<>> \/ cleanAddress = <<",">> THEN FALSE
         ELSE IF ~(\E i \in 1..Len(cleanAddress) : cleanAddress[i] \in Alphanumeric)
              THEN FALSE
              ELSE TRUE

\* const cacheKey = `${address.trim()}_${city.trim()}`
CacheKeyOf(address, city) == trim(address) \o <<"_">> \o trim(city)

\* String.prototype.toLowerCase on one token
LowerToken(w) ==
    CASE w = "FTTH" -> "ftth"
      [] w = "FWA" -> "fwa"
      [] w = "Non" -> "non"
      [] w = "Fibra" -> "fibra"
      [] OTHER -> w

toLowerCase(s) == [i \in 1..Len(s) |-> LowerToken(s[i])]

\* const allContent = `${content} ${markdown} ${html}` over the lowercased parts;
\* a missing markdown or html is '' (the ?. and || '' of lines 242-243)
AllContent(data) ==
    toLowerCase(data.content) \o <<" ">> \o toLowerCase(data.markdown)
        \o <<" ">> \o toLowerCase(data.html)

\* the chain with the FWA test ahead of the FTTH test
DetectCoverageFwaFirst(data) ==
    LET allContent == AllContent(data) IN
    IF includes(allContent, <<"fwa">>) \/ includes(allContent, <<"wireless", " ", "fisso">>)
    THEN "FWA"
    ELSE IF includes(allContent, <<"ftth">>)
            \/ includes(allContent, <<"disponibile", " ", "fibra">>)
    THEN "FTTH"
    ELSE "Non coperto"

\* the if / else-if chain of lines 247-270
DetectCoverage(data) ==
    LET allContent == AllContent(data) IN
    IF \/ includes(allContent, <<"ftth">>)
       \/ includes(allContent, <<"fiber", " ", "to", " ", "the", " ", "home">>)
       \/ includes(allContent, <<"fibra", " ", "fino", " ", "a", " ", "casa">>)
       \/ includes(allContent, <<"disponibile", " ", "fibra">>)
       \/ includes(allContent, <<"copertura", " ", "fibra", " ", "ottica">>)
    THEN "FTTH"
    ELSE IF \/ includes(allContent, <<"fwa">>)
            \/ includes(allContent, <<"fixed", " ", "wireless", " ", "access">>)
            \/ includes(allContent, <<"wireless", " ", "fisso">>)
            \/ includes(allContent, <<"tecnologia", " ", "wireless">>)
    THEN "FWA"
    ELSE IF \/ includes(allContent, <<"non", " ", "coperto">>)
            \/ includes(allContent, <<"non", " ", "disponibile">>)
            \/ includes(allContent, <<"not", " ", "available">>)
            \/ includes(allContent, <<"area", " ", "non", " ", "raggiunta">>)
    THEN "Non coperto"
    ELSE "Non coperto"

(* The messages the service returns, as token sequences *)

MSG_API_KEY_NOT_FOUND == <<"API key not found">>
MSG_INVALID_ADDRESS == <<"Invalid address format">>
MSG_RATE_LIMIT_RESPONSE ==
    <<"Rate limit", " exceeded", " - please wait before trying again">>
MSG_RATE_LIMIT_THROWN ==
    <<"Rate limit", " exceeded",
      " - too many requests. Please wait before searching again.">>
MSG_FAILED_TO_SCRAPE == <<"Failed to scrape Open Fiber">>
MSG_NO_CONTENT == <<"No content received from scraping">>
MSG_FAILED_TO_CONNECT == <<"Failed to connect to Firecrawl API">>
MSG_FAILED_GOOGLE == <<"Failed to scrape Google Maps">>
MSG_NO_CONTENT_GOOGLE == <<"No content received from Google Maps">>
MSG_ADDRESS_NOT_FOUND == <<"Address not found in Google Maps content">>
MSG_FAILED_GOOGLE_CONNECT == <<"Failed to connect to Google Maps">>
MSG_FAILED_WEBSITE == <<"Failed to scrape website">>
\* the TypeError of reading a property of null or undefined
MSG_TYPE_ERROR == <<"Cannot read properties of ", "null">>

\* the result objects { success, error?, coverage?, address? }
Failure(msg) == [success |-> FALSE, error |-> msg, coverage |-> "", address |-> <<>>]
Covered(c) == [success |-> TRUE, error |-> <<>>, coverage |-> c, address |-> <<>>]
Located(a) == [success |-> TRUE, error |-> <<>>, coverage |-> "", address |-> a]
Plain(ok) == [success |-> ok, error |-> <<>>, coverage |-> "", address |-> <<>>]
NoResult == Plain(FALSE)

(* What the scraping backend can answer.  kind "ok" is { success: true, data },
   "fail" is { success: false, error }, "throw" is a rejected scrapeUrl. *)

Response(kind, hasError, error, hasData, content, markdown, html) ==
    [kind |-> kind, hasError |-> hasError, error |-> error, hasData |-> hasData,
     data |-> [content |-> content, markdown |-> markdown, html |-> html]]

OkResponse(content, markdown, html) ==
    Response("ok", FALSE, <<>>, TRUE, content, markdown, html)
FailResponse(error) == Response("fail", TRUE, error, FALSE, <<>>, <<>>, <<>>)
ThrowResponse(isError, message) ==
    Response("throw", isError, message, FALSE, <<>>, <<>>, <<>>)
NoResponse == Response("none", FALSE, <<>>, FALSE, <<>>, <<>>, <<>>)

\* the catch block without its test for 429
ClassifyOutcomeCatchUnchecked(resp) ==
    IF resp.kind = "throw"
    THEN Failure(IF resp.hasError THEN resp.error ELSE MSG_FAILED_TO_CONNECT)
    ELSE IF resp.kind = "fail"
    THEN IF ~resp.hasError
         THEN Failure(MSG_TYPE_ERROR)
         ELSE IF includes(resp.error, <<"429">>)
              THEN Failure(MSG_RATE_LIMIT_RESPONSE)
              ELSE Failure(IF resp.error # <<>> THEN resp.error
                           ELSE MSG_FAILED_TO_SCRAPE)
    ELSE IF ~resp.hasData \/ resp.data.content = <<>>
    THEN Failure(MSG_NO_CONTENT)
    ELSE Covered(DetectCoverage(resp.data))

\* lines 215-296: what scrapeOpenFiberCoverage makes of the backend's answer
ClassifyOutcome(resp) ==
    IF resp.kind = "throw"
    THEN IF resp.hasError /\ includes(resp.error, <<"429">>)
         THEN Failure(MSG_RATE_LIMIT_THROWN)
         ELSE Failure(IF resp.hasError THEN resp.error ELSE MSG_FAILED_TO_CONNECT)
    ELSE IF resp.kind = "fail"
    THEN IF ~resp.hasError
         THEN Failure(MSG_TYPE_ERROR)   \* undefined.includes throws, caught at 281
         ELSE IF includes(resp.error, <<"429">>)
              THEN Failure(MSG_RATE_LIMIT_RESPONSE)
              ELSE Failure(IF resp.error # <<>> THEN resp.error
                           ELSE MSG_FAILED_TO_SCRAPE)
    ELSE IF ~resp.hasData \/ resp.data.content = <<>>
    THEN Failure(MSG_NO_CONTENT)
    ELSE Covered(DetectCoverage(resp.data))

\* lines 129-146: the address patterns, tried on content and then on markdown;
\* a token is an address when one of the patterns matches it
AddressTokens == {"Via Roma 1, 00100 Roma"}

RECURSIVE FirstAddress(_)
FirstAddress(s) ==
    IF s = <<>> THEN <<>>
    ELSE IF Head(s) \in AddressTokens THEN <<Head(s)>>
    ELSE FirstAddress(Tail(s))

\* lines 112-161: what scrapeGoogleMapsAddress makes of the backend's answer
GoogleOutcome(resp) ==
    IF resp.kind = "throw"
    THEN Failure(IF resp.hasError THEN resp.error ELSE MSG_FAILED_GOOGLE_CONNECT)
    ELSE IF resp.kind = "fail"
    THEN Failure(IF resp.hasError /\ resp.error # <<>> THEN resp.error
                 ELSE MSG_FAILED_GOOGLE)
    ELSE IF ~resp.hasData \/ resp.data.content = <<>>
    THEN Failure(MSG_NO_CONTENT_GOOGLE)
    ELSE LET extractedAddress ==
                 IF FirstAddress(resp.data.content) # <<>>
                 THEN FirstAddress(resp.data.content)
                 ELSE FirstAddress(resp.data.markdown)
         IN IF extractedAddress # <<>> THEN Located(extractedAddress)
            ELSE Failure(MSG_ADDRESS_NOT_FOUND)

\* lines 315-334: scrapeWebsite
WebsiteOutcome(resp) ==
    IF resp.kind = "throw"
    THEN Failure(IF resp.hasError THEN resp.error ELSE MSG_FAILED_TO_CONNECT)
    ELSE IF resp.kind = "fail"
    THEN Failure(IF resp.hasError /\ resp.error # <<>> THEN resp.error
                 ELSE MSG_FAILED_WEBSITE)
    ELSE Plain(TRUE)

\* lines 47-52: testApiKey returns testResponse.success, or false when it throws
TestOutcome(resp) == Plain(resp.kind = "ok")

----------------------------------------------------------------------------
(* Numbers and their texts.  A number is an integer, NaN, or the positive    *)
(* real number whose square is the integer sq (not a perfect square): the    *)
(* radius estimate is computed in real arithmetic, and the rounding of       *)
(* double arithmetic shows only where an estimate is floored.                *)

Integer(n) == [kind |-> "int", n |-> n, sq |-> 0]
NaN == [kind |-> "nan", n |-> 0, sq |-> 0]

Digits == {"0", "1", "2", "3", "4", "5", "6", "7", "8", "9"}

DigitValue(ch) ==
    CASE ch = "0" -> 0 [] ch = "1" -> 1 [] ch = "2" -> 2 [] ch = "3" -> 3
      [] ch = "4" -> 4 [] ch = "5" -> 5 [] ch = "6" -> 6 [] ch = "7" -> 7
      [] ch = "8" -> 8 [] ch = "9" -> 9

DigitOf(d) == <<"0", "1", "2", "3", "4", "5", "6", "7", "8", "9">>[d + 1]

\* the digits a text starts with
RECURSIVE LeadingDigits(_)
LeadingDigits(s) ==
    IF s # <<>> /\ Head(s) \in Digits
    THEN <<Head(s)>> \o LeadingDigits(Tail(s))
    ELSE <<>>

RECURSIVE DigitsValue(_, _)
DigitsValue(s, acc) ==
    IF s = <<>> THEN acc ELSE DigitsValue(Tail(s), 10 * acc + DigitValue(Head(s)))

\* parseInt(text): leading blanks, a sign, then digits; NaN without digits
parseInt(text) ==
    LET s == TrimStart(text)
        negative == s # <<>> /\ Head(s) = "-"
        unsigned == IF s # <<>> /\ Head(s) \in {"-", "+"} THEN Tail(s) ELSE s
        digits == LeadingDigits(unsigned)
    IN
    IF digits = <<>> THEN NaN
    ELSE Integer(IF negative THEN 0 - DigitsValue(digits, 0) ELSE DigitsValue(digits, 0))

\* parseFloat(text), on texts without decimal point or exponent
parseFloat(text) == parseInt(text)

\* Number.prototype.toString of a non-negative integer
RECURSIVE toString(_)
toString(n) ==
    IF n < 10 THEN <<DigitOf(n)>> ELSE toString(n \div 10) \o <<DigitOf(n % 10)>>

\* the integer square root: the largest r with r * r <= v
RECURSIVE SqrtBetween(_, _, _)
SqrtBetween(v, lo, hi) ==
    IF lo = hi THEN lo
    ELSE LET mid == (lo + hi + 1) \div 2 IN
         IF mid * mid <= v THEN SqrtBetween(v, mid, hi) ELSE SqrtBetween(v, lo, mid - 1)

\* 46340 is the largest root of a 32-bit integer
ISqrt(v) == SqrtBetween(v, 0, 46340)

\* the non-negative real number whose square is sq
Root(sq) ==
    IF ISqrt(sq) * ISqrt(sq) = sq THEN Integer(ISqrt(sq))
    ELSE [kind |-> "root", n |-> 0, sq |-> sq]

\* the height ignored: always the estimate for 25 m
calculateRadioCoverageFixed(h) == Root(3570 * 3570 * 25)

\* calculateRadioCoverage(h), lines 1078-1083: 3.57 * sqrt(height) * 1000
calculateRadioCoverage(h) ==
    LET parsed == parseFloat(h) IN
    IF parsed.kind = "nan" \/ parsed.n <= 0 THEN Integer(0)
    ELSE Root(3570 * 3570 * parsed.n)

\* Math.floor of a radius estimate.  The estimate is a product of doubles: when
\* the real product is a whole number n, the double is n or just below it
FloorOfEstimate(x) ==
    IF x.kind = "root" THEN {ISqrt(x.sq)}
    ELSE IF x.n = 0 THEN {0}
    ELSE {x.n, x.n - 1}

\* a number as a condition: 0 and NaN are falsy
TruthyNumber(x) == x.kind = "root" \/ (x.kind = "int" /\ x.n # 0)

----------------------------------------------------------------------------
(* FirecrawlService: state and operations *)

\* cleared is history: clearApiKey has run while the call waited in the limiter
IdleCall ==
    [pc |-> "idle", op |-> "", city |-> <<>>, address |-> <<>>, key |-> <<>>,
     wakeAt |-> 0, usedKey |-> Null, cleared |-> FALSE]

\* a returned call: the call, the backend's answer if one was awaited, the
\* result; value is what getApiKey returned
Returned(c, rec, resp, result) ==
    [op |-> rec.op, city |-> rec.city, address |-> rec.address,
     key |-> rec.key, resp |-> resp, result |-> result, value |-> Null]

NoReturn == Returned(0, IdleCall, NoResponse, NoResult)

\* getApiKey(): localStorage.getItem
getApiKey == localStorage

\* the credential check left out
TruthyAlways(apiKey) == TRUE

\* !apiKey: null and '' are falsy
Truthy(apiKey) == apiKey # Null /\ apiKey # ""

\* Callers are interchangeable: a new asynchronous function takes the first
\* caller that runs nothing
Free(c) == call[c].pc = "idle" /\ task[c].pc = "none"

FreeCaller(c) == Free(c) /\ \A d \in Callers : Free(d) => c <= d

\* the scrapeUrl requests awaiting the backend's answer
InFlight == {c \in Callers : call[c].pc = "inflight"}

\* this.firecrawlApp!.scrapeUrl(...) on the handle `app`, or the direct
\* scrapeUrl of scrapeWebsite and testApiKey: the request leaves now
Dispatch(c, rec, app, limited) ==
    /\ call' = [call EXCEPT ![c] = [rec EXCEPT !.pc = "inflight", !.usedKey = app]]
    /\ ret' = ret
    /\ dispatchLog' = IF limited THEN Append(dispatchLog, now) ELSE dispatchLog

\* a result handed back to the caller without any request
ReturnNow(c, rec, result) ==
    /\ call' = [call EXCEPT ![c] = IdleCall]
    /\ ret' = Returned(c, rec, NoResponse, result)

\* rateLimitedRequest, lines 75-82 and, when there is nothing to wait for, 84-85
rateLimitedRequest(c, rec) ==
    LET timeSinceLastRequest == now - lastRequestTime IN
    IF timeSinceLastRequest < REQUEST_DELAY
    THEN /\ call' = [call EXCEPT ![c] =
                 [rec EXCEPT !.pc = "waiting",
                             !.wakeAt = now + (REQUEST_DELAY - timeSinceLastRequest)]]
         /\ UNCHANGED <<lastRequestTime, dispatchLog, ret>>
    ELSE /\ lastRequestTime' = now
         /\ Dispatch(c, rec, firecrawlApp', TRUE)

\* the cache is never consulted
coverageCacheHasNever(key) == FALSE

\* this.coverageCache.has(cacheKey)
coverageCacheHas(key) == key \in DOMAIN coverageCache

\* if (!this.firecrawlApp) this.firecrawlApp = new FirecrawlApp({ apiKey })
EnsureApp(apiKey) ==
    firecrawlApp' = IF firecrawlApp = Null THEN apiKey ELSE firecrawlApp

NewCall(op, city, address) ==
    [IdleCall EXCEPT !.op = op, !.city = city, !.address = address]

\* saveApiKey(apiKey)
saveApiKey(apiKey) ==
    /\ localStorage' = apiKey
    /\ firecrawlApp' = apiKey
    /\ UNCHANGED <<lastRequestTime, coverageCache, now, call, ret, dispatchLog,
                   successes, started>>

\* the calls as clearApiKey leaves them: untouched, the waiting ones marked
ClearedDuringWait ==
    [c \in Callers |->
        IF call[c].pc = "waiting" THEN [call[c] EXCEPT !.cleared = TRUE] ELSE call[c]]

\* clearing the credential also empties the cache
clearApiKeyAndCache ==
    /\ localStorage # Null \/ firecrawlApp # Null
    /\ localStorage' = Null
    /\ firecrawlApp' = Null
    /\ coverageCache' = <<>>
    /\ call' = ClearedDuringWait
    /\ UNCHANGED <<lastRequestTime, now, ret, dispatchLog, successes, started>>

\* the storage item removed, the client handle kept
clearApiKeyKeepingHandle ==
    /\ localStorage # Null \/ firecrawlApp # Null
    /\ localStorage' = Null
    /\ call' = ClearedDuringWait
    /\ UNCHANGED <<firecrawlApp, lastRequestTime, coverageCache, now, ret,
                   dispatchLog, successes, started>>

\* clearApiKey()
clearApiKey ==
    /\ localStorage # Null \/ firecrawlApp # Null
    /\ localStorage' = Null
    /\ firecrawlApp' = Null
    /\ call' = ClearedDuringWait
    /\ UNCHANGED <<lastRequestTime, coverageCache, now, ret, dispatchLog,
                   successes, started>>

\* scrapeOpenFiberCoverage(city, address) up to its first suspension, lines 165-211
scrapeOpenFiberCoverage(c, city, address) ==
    /\ call[c].pc = "idle"
    /\ started' = started + 1
    /\ LET apiKey == getApiKey
           rec == [NewCall("classify", city, address) EXCEPT
                       !.key = CacheKeyOf(address, city)]
       IN
       IF ~Truthy(apiKey)
       THEN /\ ReturnNow(c, rec, Failure(MSG_API_KEY_NOT_FOUND))
            /\ UNCHANGED <<firecrawlApp, lastRequestTime, dispatchLog>>
       ELSE IF ~validateAddress(address, city)
       THEN /\ ReturnNow(c, rec, Failure(MSG_INVALID_ADDRESS))
            /\ UNCHANGED <<firecrawlApp, lastRequestTime, dispatchLog>>
       ELSE IF coverageCacheHas(rec.key)
       THEN /\ ReturnNow(c, rec, Covered(coverageCache[rec.key]))
            /\ UNCHANGED <<firecrawlApp, lastRequestTime, dispatchLog>>
       ELSE /\ EnsureApp(apiKey)
            /\ rateLimitedRequest(c, rec)
    /\ UNCHANGED <<localStorage, coverageCache, now, successes>>

\* scrapeGoogleMapsAddress(businessName, lat, lon) up to its first suspension
scrapeGoogleMapsAddress(c) ==
    /\ call[c].pc = "idle"
    /\ started' = started + 1
    /\ LET apiKey == getApiKey
           rec == NewCall("google", <<>>, <<>>)
       IN
       IF ~Truthy(apiKey)
       THEN /\ ReturnNow(c, rec, Failure(MSG_API_KEY_NOT_FOUND))
            /\ UNCHANGED <<firecrawlApp, lastRequestTime, dispatchLog>>
       ELSE /\ EnsureApp(apiKey)
            /\ rateLimitedRequest(c, rec)
    /\ UNCHANGED <<localStorage, coverageCache, now, successes>>

\* scrapeWebsite(url) up to its first suspension, lines 300-313
scrapeWebsite(c) ==
    /\ call[c].pc = "idle"
    /\ started' = started + 1
    /\ LET apiKey == getApiKey
           rec == NewCall("website", <<>>, <<>>)
       IN
       IF ~Truthy(apiKey)
       THEN /\ ReturnNow(c, rec, Failure(MSG_API_KEY_NOT_FOUND))
            /\ UNCHANGED <<firecrawlApp, dispatchLog>>
       ELSE /\ EnsureApp(apiKey)
            /\ Dispatch(c, rec, firecrawlApp', FALSE)
    /\ UNCHANGED <<localStorage, lastRequestTime, coverageCache, now, successes>>

\* the tested client installed as the shared handle
testApiKeyInstalling(c, apiKey) ==
    /\ call[c].pc = "idle"
    /\ started' = started + 1
    /\ firecrawlApp' = apiKey
    /\ Dispatch(c, NewCall("test", <<>>, <<>>), apiKey, FALSE)
    /\ UNCHANGED <<localStorage, lastRequestTime, coverageCache, now, successes>>

\* testApiKey(apiKey) up to its suspension, lines 43-47: a temporary client
testApiKey(c, apiKey) ==
    /\ call[c].pc = "idle"
    /\ started' = started + 1
    /\ Dispatch(c, NewCall("test", <<>>, <<>>), apiKey, FALSE)
    /\ UNCHANGED <<localStorage, firecrawlApp, lastRequestTime, coverageCache, now,
                   successes>>

\* the request leaves whatever has become of the handle
DelayElapsedDispatching(c) ==
    /\ call[c].pc = "waiting"
    /\ now >= call[c].wakeAt
    /\ lastRequestTime' = now
    /\ Dispatch(c, call[c], firecrawlApp, TRUE)
    /\ UNCHANGED <<localStorage, firecrawlApp, coverageCache, now, successes, started>>

\* the timer of delay(waitTime) fires: lines 84-85 of rateLimitedRequest.
\* requestFn dereferences this.firecrawlApp; when clearApiKey has run in the
\* meantime that throws a TypeError, which the caller's catch turns into a result
DelayElapsed(c) ==
    /\ call[c].pc = "waiting"
    /\ now >= call[c].wakeAt
    /\ lastRequestTime' = now
    /\ IF firecrawlApp = Null
       THEN /\ ReturnNow(c, call[c], Failure(MSG_TYPE_ERROR))
            /\ UNCHANGED dispatchLog
       ELSE Dispatch(c, call[c], firecrawlApp, TRUE)
    /\ UNCHANGED <<localStorage, firecrawlApp, coverageCache, now, successes, started>>

\* the result the suspended operation computes from the backend's answer
OutcomeOf(op, resp) ==
    CASE op = "classify" -> ClassifyOutcome(resp)
      [] op = "google" -> GoogleOutcome(resp)
      [] op = "website" -> WebsiteOutcome(resp)
      [] OTHER -> TestOutcome(resp)

\* the default classification cached whatever the outcome of the scrape
CacheAfterAnyOutcome(rec, result) ==
    IF rec.op = "classify"
    THEN [k \in DOMAIN coverageCache \cup {rec.key} |->
              IF k = rec.key
              THEN (IF result.success THEN result.coverage ELSE "Non coperto")
              ELSE coverageCache[k]]
    ELSE coverageCache

\* this.coverageCache.set(cacheKey, coverage), line 275
CacheAfter(rec, result) ==
    IF rec.op = "classify" /\ result.success
    THEN [k \in DOMAIN coverageCache \cup {rec.key} |->
              IF k = rec.key THEN result.coverage ELSE coverageCache[k]]
    ELSE coverageCache

\* the backend answers the request of caller c; the operation runs to its return
ResponseArrives(c, resp) ==
    /\ call[c].pc = "inflight"
    /\ LET result == OutcomeOf(call[c].op, resp) IN
       /\ call' = [call EXCEPT ![c] = IdleCall]
       /\ ret' = Returned(c, call[c], resp, result)
       /\ coverageCache' = CacheAfter(call[c], result)
       /\ successes' = IF call[c].op = "classify" /\ result.success
                       THEN successes \cup {<<call[c].key, result.coverage>>}
                       ELSE successes
    /\ UNCHANGED <<localStorage, firecrawlApp, lastRequestTime, now, dispatchLog,
                   started>>

\* time passes
Advance ==
    /\ now' = now + Tick
    /\ UNCHANGED <<localStorage, firecrawlApp, lastRequestTime, coverageCache, call,
                   ret, dispatchLog, successes, started>>

----------------------------------------------------------------------------
(* The view's initial state, lines 1044-1063 and the effect of lines 1068-1076 *)

NoTask ==
    [pc |-> "none", list |-> 0, i |-> 0, wakeAt |-> 0, apiKey |-> "",
     isApiKeyValid |-> FALSE]
NoFetch == [pending |-> FALSE, isApiKeyValid |-> FALSE, r |-> Integer(0), clauses |-> <<>>]

\* the effect of lines 1085-1091, run when height or radiusManual has changed
RadiusEffect(h, text) ==
    LET calculated == calculateRadioCoverage(h) IN
    /\ height' = h
    /\ autoRadius' = calculated
    /\ radiusManual' \in IF text = <<>>
                         THEN {toString(f) : f \in FloorOfEstimate(calculated)}
                         ELSE {text}

ApiKeys == {"k1"}

Init ==
    /\ localStorage \in {Null} \cup ApiKeys
    /\ firecrawlApp = Null
    /\ lastRequestTime = 0
    /\ coverageCache = <<>>
    /\ now = StartTime
    /\ call = [c \in Callers |-> IdleCall]
    /\ ret = NoReturn
    /\ dispatchLog = <<>>
    /\ successes = {}
    /\ started = 0
    /\ results = 0
    /\ lists = <<>>
    /\ runs = <<>>
    /\ loading = FALSE
    /\ coverageCheckInProgress = FALSE
    /\ isApiKeyValid = Truthy(localStorage)
    /\ firecrawlApiKey = IF Truthy(localStorage) THEN localStorage ELSE ""
    /\ fetch = NoFetch
    /\ toast = <<>>
    /\ selectedCategories =
           [ricettive |-> TRUE, commerciali |-> TRUE, industriali |-> FALSE]
    /\ height = <<"3", "0">>
    /\ autoRadius = calculateRadioCoverage(<<"3", "0">>)
    /\ radiusManual \in {toString(f) :
                             f \in FloorOfEstimate(calculateRadioCoverage(<<"3", "0">>))}
    /\ lat = <<"4", "1", ".", "9", "0", "2", "8">>
    /\ lon = <<"1", "2", ".", "4", "9", "6", "4">>
    /\ task = [c \in Callers |-> NoTask]

----------------------------------------------------------------------------
(* The service driven by any asynchronous callers *)

SampleAddresses == {<<"a", "a", "a">>, <<"a", ",">>}
SampleCities == {<<"b", "b">>}

SampleResponses ==
    { OkResponse(<<"ftth">>, <<>>, <<>>),
      OkResponse(<<"ciao">>, <<"fwa">>, <<>>),
      OkResponse(<<>>, <<>>, <<>>),
      FailResponse(<<"Status code: ", "429", ". Error: ", "Rate limit", " exceeded">>),
      ThrowResponse(TRUE, <<"Network Error">>) }

\* a caller begins a service operation
Begins(c) == FreeCaller(c) /\ started < MaxCalls

CallSaveApiKey == \E k \in ApiKeys : saveApiKey(k) /\ UNCHANGED viewVars

CallClearApiKey == clearApiKey /\ UNCHANGED viewVars

CallClassify ==
    \E c \in Callers, city \in SampleCities, address \in SampleAddresses :
        Begins(c) /\ scrapeOpenFiberCoverage(c, city, address) /\ UNCHANGED viewVars

CallGoogle ==
    \E c \in Callers : Begins(c) /\ scrapeGoogleMapsAddress(c) /\ UNCHANGED viewVars

CallWebsite ==
    \E c \in Callers : Begins(c) /\ scrapeWebsite(c) /\ UNCHANGED viewVars

CallTestApiKey ==
    \E c \in Callers, k \in ApiKeys :
        Begins(c) /\ testApiKey(c, k) /\ UNCHANGED viewVars

TimerFires == \E c \in Callers : DelayElapsed(c) /\ UNCHANGED viewVars

BackendAnswers ==
    \E c \in Callers :
        /\ call[c].pc = "inflight"
        /\ \E resp \in SampleResponses : ResponseArrives(c, resp)
        /\ UNCHANGED viewVars

TimePasses == now + Tick <= MaxTime /\ Advance /\ UNCHANGED viewVars

Next ==
    \/ CallSaveApiKey
    \/ CallClearApiKey
    \/ CallClassify
    \/ CallGoogle
    \/ CallWebsite
    \/ CallTestApiKey
    \/ TimerFires
    \/ BackendAnswers
    \/ TimePasses

Spec == Init /\ [][Next]_vars

----------------------------------------------------------------------------
(* The rate limiter *)

\* C1: any two requests dispatched by rateLimitedRequest, by one caller or by
\* overlapping callers, are dispatched at least REQUEST_DELAY apart.
DispatchesSpacedByDelay ==
    \A i, j \in DOMAIN dispatchLog :
        i < j => dispatchLog[j] - dispatchLog[i] >= REQUEST_DELAY

\* a step in which caller c's request leaves for the backend
Dispatches(c) == call[c].pc # "inflight" /\ call'[c].pc = "inflight"

\* C3: every request any operation of the service sends goes through the rate
\* limiter: it is sent no sooner than REQUEST_DELAY after the last recorded
\* dispatch, and is itself recorded in lastRequestTime.
EveryDispatchRateLimited ==
    [][\A c \in Callers :
           Dispatches(c) =>
               /\ now - lastRequestTime >= REQUEST_DELAY
               /\ lastRequestTime' = now]_vars

----------------------------------------------------------------------------
(* The coverage cache *)

\* nothing of the service's shared state moves and no request leaves
NoRequestNoStateChange ==
    /\ UNCHANGED <<firecrawlApp, lastRequestTime, coverageCache, dispatchLog>>
    /\ InFlight' = InFlight
    /\ \A c \in Callers : call'[c].pc # "waiting" \/ call[c].pc = "waiting"

\* a classify call that gets as far as the cache check and finds its key there
CacheHitCall(c, city, address) ==
    /\ scrapeOpenFiberCoverage(c, city, address)
    /\ Truthy(localStorage)
    /\ validateAddress(address, city)
    /\ CacheKeyOf(address, city) \in DOMAIN coverageCache

ClassifyIdempotentAlways ==
    [][/\ \A k \in DOMAIN coverageCache :
              k \in DOMAIN coverageCache' /\ coverageCache'[k] = coverageCache[k]
       /\ \A c \in Callers, city \in SampleCities, address \in SampleAddresses :
              (/\ scrapeOpenFiberCoverage(c, city, address)
               /\ CacheKeyOf(address, city) \in DOMAIN coverageCache)
              => /\ ret'.result = Covered(coverageCache[CacheKeyOf(address, city)])
                 /\ NoRequestNoStateChange]_vars

\* a scrape of key k that missed the cache earlier completes with success now
PendingScrapeSucceeds(k) ==
    \E c \in Callers :
        /\ call[c].pc = "inflight" /\ call[c].op = "classify" /\ call[c].key = k
        /\ call'[c].pc = "idle"
        /\ ret'.result.success

\* C5 as amended: a classified key stays in the cache; every later classify
\* call for it made while a credential is stored returns the classification
\* the cache then holds and sends no request; the cached classification
\* changes only when a scrape of the same key that was already pending succeeds.
ClassifyIdempotentWithCredential ==
    [][/\ \A k \in DOMAIN coverageCache :
              /\ k \in DOMAIN coverageCache'
              /\ coverageCache'[k] # coverageCache[k] => PendingScrapeSucceeds(k)
       /\ \A c \in Callers, city \in SampleCities, address \in SampleAddresses :
              CacheHitCall(c, city, address)
              => /\ ret'.result = Covered(coverageCache[CacheKeyOf(address, city)])
                 /\ InFlight' = InFlight
                 /\ dispatchLog' = dispatchLog]_vars

\* after one scrape, later calls for the classified key have returned the
\* cached classification without a further request
RepeatedClassifyReturned ==
    /\ ret.op = "classify"
    /\ ret.resp = NoResponse
    /\ ret.result.success
    /\ started = MaxCalls
    /\ Len(dispatchLog) = 1

\* C9: when a scrape succeeds with classification c, the cache maps the call's
\* key to c as the call returns; and the cache never holds a value that no
\* successful scrape of that key returned.
CacheHoldsOnlySuccesses ==
    /\ [](\A k \in DOMAIN coverageCache : <<k, coverageCache[k]>> \in successes)
    /\ [][\A c \in Callers :
              (/\ call[c].pc = "inflight" /\ call[c].op = "classify"
               /\ call'[c].pc = "idle"
               /\ ret'.result.success)
              => /\ call[c].key \in DOMAIN coverageCache'
                 /\ coverageCache'[call[c].key] = ret'.result.coverage
                 /\ ret'.key = call[c].key]_vars

\* a scrape has succeeded and its classification is in the cache
ScrapeSucceededAndCached ==
    /\ ret.op = "classify"
    /\ ret.resp.kind = "ok"
    /\ ret.result.success
    /\ ret.key \in DOMAIN coverageCache
    /\ coverageCache[ret.key] = "FWA"

----------------------------------------------------------------------------
(* Missing credential *)

\* C7: without a stored credential, classify, scrapeGoogleMapsAddress and
\* scrapeWebsite return { success: false, error: 'API key not found' } as a
\* value, send no request, build no client handle, and leave the cache and the
\* rate limiter untouched.
MissingCredentialIsAResult ==
    [][\A c \in Callers :
           (/\ localStorage = Null
            /\ \/ \E city \in SampleCities, address \in SampleAddresses :
                      scrapeOpenFiberCoverage(c, city, address)
               \/ scrapeGoogleMapsAddress(c)
               \/ scrapeWebsite(c))
           => /\ ret'.result = Failure(MSG_API_KEY_NOT_FOUND)
              /\ call'[c].pc = "idle"
              /\ NoRequestNoStateChange]_vars

\* a classify call made without a credential has returned
MissingCredentialReturned ==
    /\ localStorage = Null
    /\ ret.op = "classify"
    /\ ret.result = Failure(MSG_API_KEY_NOT_FOUND)

----------------------------------------------------------------------------
(* Validation, over every short address and city *)

AddressChars == {"a", " ", ",", "_"}
CityChars == {"b", " ", "_"}

StringsUpTo(chars, n) == UNION {[1..k -> chars] : k \in 0..n}

AllAddresses == StringsUpTo(AddressChars, MaxAddressLen)
AllCities == StringsUpTo(CityChars, MaxCityLen)

\* the first service call of a behaviour: classify on any of the inputs
ClassifyAnyInput ==
    /\ started = 0
    /\ \E c \in Callers, city \in AllCities, address \in AllAddresses :
           FreeCaller(c) /\ scrapeOpenFiberCoverage(c, city, address)
    /\ UNCHANGED viewVars

NextValidation ==
    \/ ClassifyAnyInput
    \/ BackendAnswers

SpecValidation == Init /\ [][NextValidation]_vars

\* the inputs the claim calls invalid
HasAlphanumeric(s) == \E i \in 1..Len(s) : s[i] \in Alphanumeric

ClaimedInvalid(city, address) ==
    \/ Len(trim(address)) < 3
    \/ ~HasAlphanumeric(trim(address))
    \/ Len(trim(city)) < 2

\* no request was sent for an invalid input, nor is one about to be
NoRequestForInvalid ==
    /\ \A c \in Callers :
           call[c].pc # "idle" => ~ClaimedInvalid(call[c].city, call[c].address)
    /\ (ret.op = "classify" /\ ClaimedInvalid(ret.city, ret.address))
           => ret.resp = NoResponse

\* C6 as claimed: every classify call whose trimmed address has fewer than 3
\* characters or no alphanumeric character, or whose trimmed city has fewer
\* than 2 characters, returns 'Invalid address format' and sends no request.
InvalidInputAlwaysRejected ==
    /\ NoRequestForInvalid
    /\ (ret.op = "classify" /\ ClaimedInvalid(ret.city, ret.address))
           => ret.result = Failure(MSG_INVALID_ADDRESS)

\* C6 as amended: every such call sends no request, and returns 'Invalid
\* address format' when a credential is stored ('API key not found' otherwise).
InvalidInputRejected ==
    /\ NoRequestForInvalid
    /\ (ret.op = "classify" /\ ClaimedInvalid(ret.city, ret.address))
           => ret.result = IF Truthy(localStorage)
                           THEN Failure(MSG_INVALID_ADDRESS)
                           ELSE Failure(MSG_API_KEY_NOT_FOUND)

\* classify("bb", ",,,") was rejected with a credential stored: an address long
\* enough that has no alphanumeric character
InvalidInputReturned ==
    /\ Truthy(localStorage)
    /\ ret.op = "classify"
    /\ ret.city = <<"b", "b">>
    /\ ret.address = <<",", ",", ",">>
    /\ ret.result = Failure(MSG_INVALID_ADDRESS)

----------------------------------------------------------------------------
(* Classification of the backend's answer, over many answers *)

TextVocabulary ==
    {"ftth", "FTTH", "fwa", "non", "Non", "coperto", "disponibile", "fibra",
     "wireless", "fisso", " ", "ciao"}

Contents == StringsUpTo(TextVocabulary, MaxTextLen)
Markdowns == {<<>>, <<"fwa">>, <<"coperto">>, <<"fibra">>}
Htmls == {<<>>, <<"ftth">>, <<"FWA">>}

ErrorMessages ==
    { <<>>,
      <<"Failed to scrape URL. Status code: ", "429", ". Error: ", "Rate limit",
        " exceeded">>,
      <<"Request failed with status code ", "429">>,
      <<"Failed to scrape URL. Status code: ", "500">>,
      <<"Rate limit", " exceeded">>,
      <<"Network Error">> }

AllResponses ==
    {OkResponse(c, m, h) : c \in Contents, m \in Markdowns, h \in Htmls}
    \cup {Response("ok", FALSE, <<>>, FALSE, <<>>, <<>>, <<>>)}
    \cup {Response("fail", e, m, FALSE, <<>>, <<>>, <<>>) :
              e \in BOOLEAN, m \in ErrorMessages}
    \cup {ThrowResponse(e, m) : e \in BOOLEAN, m \in ErrorMessages}

\* the first service call of a behaviour: classify on a sample input
ClassifyOnce == started = 0 /\ CallClassify

BackendAnswersAnything ==
    \E c \in Callers :
        /\ call[c].pc = "inflight"
        /\ \E resp \in AllResponses : ResponseArrives(c, resp)
        /\ UNCHANGED viewVars

NextClassification ==
    \/ ClassifyOnce
    \/ BackendAnswersAnything

SpecClassification == Init /\ [][NextClassification]_vars

\* the indicator phrases of the three groups
FTTHIndicators ==
    { <<"ftth">>, <<"fiber", " ", "to", " ", "the", " ", "home">>,
      <<"fibra", " ", "fino", " ", "a", " ", "casa">>,
      <<"disponibile", " ", "fibra">>,
      <<"copertura", " ", "fibra", " ", "ottica">> }
FWAIndicators ==
    { <<"fwa">>, <<"fixed", " ", "wireless", " ", "access">>,
      <<"wireless", " ", "fisso">>, <<"tecnologia", " ", "wireless">> }
NotCoveredIndicators ==
    { <<"non", " ", "coperto">>, <<"non", " ", "disponibile">>,
      <<"not", " ", "available">>, <<"area", " ", "non", " ", "raggiunta">> }

Occurs(group, text) == \E phrase \in group : includes(text, phrase)

\* a scrape whose answer carried content has returned
ContentClassified ==
    /\ ret.op = "classify"
    /\ ret.resp.kind = "ok"
    /\ ret.resp.hasData
    /\ ret.resp.data.content # <<>>

\* C8: the classification is FTTH if any FTTH indicator occurs in the combined
\* lowercase text, else FWA if any FWA indicator occurs, else Non coperto; so a
\* text with both "ftth" and "non coperto" gives FTTH and a text with none of
\* the known phrases gives Non coperto.
ClassificationByPriority ==
    ContentClassified =>
        LET text == AllContent(ret.resp.data) IN
        /\ ret.result.success
        /\ Occurs(FTTHIndicators, text) => ret.result.coverage = "FTTH"
        /\ (~Occurs(FTTHIndicators, text) /\ Occurs(FWAIndicators, text))
               => ret.result.coverage = "FWA"
        /\ (~Occurs(FTTHIndicators, text) /\ ~Occurs(FWAIndicators, text))
               => ret.result.coverage = "Non coperto"
        /\ (includes(text, <<"ftth">>) /\ includes(text, <<"non", " ", "coperto">>))
               => ret.result.coverage = "FTTH"

\* the page said "Non coperto", the markdown "fwa" and the html "ftth": all
\* three groups occur, and the classification is FTTH
AllGroupsClassified ==
    /\ ContentClassified
    /\ ret.resp.data.content = <<"Non", " ", "coperto">>
    /\ ret.resp.data.markdown = <<"fwa">>
    /\ ret.resp.data.html = <<"ftth">>
    /\ ret.result.coverage = "FTTH"

\* the backend's error string, or the thrown Error's message, contains "429"
Mentions429(resp) ==
    /\ resp.kind \in {"fail", "throw"}
    /\ resp.hasError
    /\ includes(resp.error, <<"429">>)

RateLimitedOutcomes ==
    {Failure(MSG_RATE_LIMIT_RESPONSE), Failure(MSG_RATE_LIMIT_THROWN)}

\* a scrape has returned a failure after the backend answered
ScrapeFailed ==
    /\ ret.op = "classify"
    /\ ret.resp.kind # "none"
    /\ ~ret.result.success

\* C10: a scrape failure whose error string or thrown message contains "429"
\* gives the RateLimited outcome, whose error begins 'Rate limit exceeded';
\* every other scrape failure gives a failure that is not the RateLimited
\* outcome; on the failed-response path and on the thrown-exception path.
RateLimitDistinguished ==
    ScrapeFailed =>
        /\ Mentions429(ret.resp) =>
               /\ ret.result \in RateLimitedOutcomes
               /\ startsWith(ret.result.error, <<"Rate limit", " exceeded">>)
        /\ ~Mentions429(ret.resp) => ret.result \notin RateLimitedOutcomes
        /\ ret.resp.kind = "fail" => ret.result # Failure(MSG_RATE_LIMIT_THROWN)
        /\ ret.resp.kind = "throw" => ret.result # Failure(MSG_RATE_LIMIT_RESPONSE)

\* a rejected scrapeUrl whose message mentions 429 was reported as RateLimited
ThrownRateLimitReturned ==
    /\ ScrapeFailed
    /\ ret.resp.kind = "throw"
    /\ Mentions429(ret.resp)
    /\ ret.result = Failure(MSG_RATE_LIMIT_THROWN)

----------------------------------------------------------------------------
(* The view: CoverageAreaFinder, src/unnamed/part_001 lines 1004-1662.      *)
(* An asynchronous function of the view runs without interruption from one  *)
(* suspension to the next: while a task is at a runnable position no other  *)
(* event is handled.                                                        *)

CHECKING == "Verifica in corso..."
CHECK_ERROR == "Errore verifica"
COVERAGE_PAUSE == 2000

\* String.prototype.replace(/\s+/g, " ")
RECURSIVE CollapseWhitespace(_, _)
CollapseWhitespace(s, inRun) ==
    IF s = <<>> THEN <<>>
    ELSE IF IsSpace(Head(s))
         THEN (IF inRun THEN <<>> ELSE <<" ">>) \o CollapseWhitespace(Tail(s), TRUE)
         ELSE <<Head(s)>> \o CollapseWhitespace(Tail(s), FALSE)

\* the address tags of a business; <<>> is a tag that is absent
Tags(street, housenumber, postcode, city) ==
    [street |-> street, housenumber |-> housenumber, postcode |-> postcode,
     city |-> city]

\* formatAddress(tags), lines 1178-1185
formatAddress(tags) ==
    trim(CollapseWhitespace(
        tags.street \o <<" ">> \o tags.housenumber \o <<",", " ">>
            \o tags.postcode \o <<" ">> \o tags.city, FALSE))

SampleBusinesses ==
    { Tags(<<"a", "a">>, <<"1">>, <<>>, <<"b", "b">>),
      Tags(<<>>, <<>>, <<>>, <<>>) }

\* the elements arrays the map service can answer with
BusinessLists == UNION {[1..n -> SampleBusinesses] : n \in 0..MaxBusinesses}

\* what the scraping backend answers to the requests of the view
ViewResponses ==
    { OkResponse(<<"ftth">>, <<>>, <<>>),
      FailResponse(<<"Status code: ", "429", ". Error: ", "Rate limit", " exceeded">>) }

\* what the user can type into the API key field
KeyTexts == {"", "k1"}

Runnable(c) == task[c].pc \in {"scan", "resume", "finish", "testResume"}

\* no asynchronous function is in the middle of a synchronous stretch
Quiet == \A c \in Callers : ~Runnable(c)

\* toast({ title, description, variant }); n is the number a description quotes
Toast(title, description, n, variant) ==
    [title |-> title, description |-> description, n |-> n, variant |-> variant]

\* onChange of the API key field, setFirecrawlApiKey
TypeApiKey(text) ==
    /\ Quiet
    /\ text # firecrawlApiKey
    /\ firecrawlApiKey' = text
    /\ UNCHANGED <<serviceVars, results, lists, runs, loading, coverageCheckInProgress,
                   isApiKeyValid, fetch, toast, formVars, task>>

\* toggleCategory(category), lines 1171-1176
ToggleCategory(category) ==
    /\ Quiet
    /\ selectedCategories' = [selectedCategories EXCEPT ![category] = ~@]
    /\ UNCHANGED <<serviceVars, results, lists, runs, loading, coverageCheckInProgress,
                   isApiKeyValid, firecrawlApiKey, fetch, toast, height, radiusManual,
                   autoRadius, lat, lon, task>>

\* onChange of the height field, line 1471, and the effect it triggers
SetHeight(h) ==
    /\ Quiet
    /\ h # height
    /\ RadiusEffect(h, radiusManual)
    /\ UNCHANGED <<serviceVars, results, lists, runs, loading, coverageCheckInProgress,
                   isApiKeyValid, firecrawlApiKey, fetch, toast, selectedCategories,
                   lat, lon, task>>

\* onChange of the radius field, line 1487, and the effect it triggers
SetRadiusManual(text) ==
    /\ Quiet
    /\ text # radiusManual
    /\ RadiusEffect(height, text)
    /\ UNCHANGED <<serviceVars, results, lists, runs, loading, coverageCheckInProgress,
                   isApiKeyValid, firecrawlApiKey, fetch, toast, selectedCategories,
                   lat, lon, task>>

\* node[tag=value](around:r,lat,lon); a value of "" is a clause on the tag alone
Clause(tag, value, r, centerLat, centerLon) ==
    [tag |-> tag, value |-> value, r |-> r, lat |-> centerLat, lon |-> centerLon]

\* String.prototype.split(","): the pieces between the commas
RECURSIVE SplitOnComma(_, _)
SplitOnComma(text, piece) ==
    IF text = <<>> THEN <<piece>>
    ELSE IF Head(text) = ","
    THEN <<piece>> \o SplitOnComma(Tail(text), <<>>)
    ELSE SplitOnComma(Tail(text), Append(piece, Head(text)))

\* the text is a decimal literal: an optional sign, digits, at most one point
DecimalLiteral(text) ==
    LET unsigned == IF text # <<>> /\ Head(text) \in {"-", "+"} THEN Tail(text)
                    ELSE text
        points == {n \in DOMAIN unsigned : unsigned[n] = "."}
    IN
    /\ \A n \in DOMAIN unsigned : unsigned[n] \in Digits \cup {"."}
    /\ Cardinality(points) <= 1
    /\ \E n \in DOMAIN unsigned : unsigned[n] \in Digits

\* isNaN(Number(text)): Number skips the white space around the text and reads
\* the empty text as 0
NumberIsNaN(text) == trim(text) # <<>> /\ ~DecimalLiteral(trim(text))

\* onChange of the coordinates field, lines 1451-1458
SetCoordinates(text) ==
    /\ Quiet
    /\ LET pieces == SplitOnComma(text, <<>>)
           coords == [n \in DOMAIN pieces |-> trim(pieces[n])]
       IN
       IF Len(coords) = 2 /\ ~NumberIsNaN(coords[1]) /\ ~NumberIsNaN(coords[2])
       THEN lat' = coords[1] /\ lon' = coords[2]
       ELSE UNCHANGED <<lat, lon>>
    /\ UNCHANGED <<serviceVars, results, lists, runs, loading, coverageCheckInProgress,
                   isApiKeyValid, firecrawlApiKey, fetch, toast, selectedCategories,
                   height, radiusManual, autoRadius, task>>

\* every category enabled, whatever is selected
QueryPartsAll(categories, r, centerLat, centerLon) ==
    << Clause("tourism", "hotel", r, centerLat, centerLon),
       Clause("tourism", "guest_house", r, centerLat, centerLon),
       Clause("tourism", "hostel", r, centerLat, centerLon),
       Clause("amenity", "restaurant", r, centerLat, centerLon),
       Clause("shop", "", r, centerLat, centerLon),
       Clause("office", "", r, centerLat, centerLon),
       Clause("landuse", "industrial", r, centerLat, centerLon) >>

\* the commercial clauses ahead of the lodging clauses
QueryPartsCommercialFirst(categories, r, centerLat, centerLon) ==
    (IF categories.commerciali
     THEN << Clause("amenity", "restaurant", r, centerLat, centerLon),
             Clause("shop", "", r, centerLat, centerLon),
             Clause("office", "", r, centerLat, centerLon) >>
     ELSE <<>>)
    \o (IF categories.ricettive
        THEN << Clause("tourism", "hotel", r, centerLat, centerLon),
                Clause("tourism", "guest_house", r, centerLat, centerLon),
                Clause("tourism", "hostel", r, centerLat, centerLon) >>
        ELSE <<>>)
    \o (IF categories.industriali
        THEN << Clause("landuse", "industrial", r, centerLat, centerLon) >>
        ELSE <<>>)

\* queryParts, lines 1097-1113
QueryParts(categories, r, centerLat, centerLon) ==
    (IF categories.ricettive
     THEN << Clause("tourism", "hotel", r, centerLat, centerLon),
             Clause("tourism", "guest_house", r, centerLat, centerLon),
             Clause("tourism", "hostel", r, centerLat, centerLon) >>
     ELSE <<>>)
    \o (IF categories.commerciali
        THEN << Clause("amenity", "restaurant", r, centerLat, centerLon),
                Clause("shop", "", r, centerLat, centerLon),
                Clause("office", "", r, centerLat, centerLon) >>
        ELSE <<>>)
    \o (IF categories.industriali
        THEN << Clause("landuse", "industrial", r, centerLat, centerLon) >>
        ELSE <<>>)

\* const r = parseInt(radiusManual) || autoRadius, line 1094
SearchRadius(text, auto) ==
    IF TruthyNumber(parseInt(text)) THEN parseInt(text) ELSE auto

\* fetchOSMData up to its await of fetch, lines 1093-1139; the button is
\* disabled while loading
ClickSearch ==
    /\ Quiet
    /\ ~loading
    /\ Len(lists) < MaxSearches
    /\ LET r == SearchRadius(radiusManual, autoRadius)
           queryParts == QueryParts(selectedCategories, r, lat, lon)
       IN
       IF queryParts = <<>>
       THEN /\ toast' = <<Toast("Nessuna categoria selezionata",
                                "Seleziona almeno una categoria di attività", 0,
                                "destructive")>>
            /\ UNCHANGED <<loading, fetch>>
       ELSE /\ loading' = TRUE
            /\ fetch' = [pending |-> TRUE, isApiKeyValid |-> isApiKeyValid, r |-> r,
                         clauses |-> queryParts]
            /\ UNCHANGED toast
    /\ UNCHANGED <<serviceVars, results, lists, runs, coverageCheckInProgress,
                   isApiKeyValid, firecrawlApiKey, formVars, task>>

\* the published list replaced by the empty list when the search fails
FetchFailsClearing ==
    /\ Quiet
    /\ fetch.pending
    /\ fetch' = NoFetch
    /\ loading' = FALSE
    /\ results' = 0
    /\ toast' = <<Toast("Errore", "Impossibile caricare i dati. Riprova più tardi.", 0,
                        "destructive")>>
    /\ UNCHANGED <<serviceVars, lists, runs, coverageCheckInProgress,
                   isApiKeyValid, firecrawlApiKey, formVars, task>>

\* the map service fails, or answers with a status that is not ok: lines
\* 1143-1145 and 1159-1168
FetchFails ==
    /\ Quiet
    /\ fetch.pending
    /\ fetch' = NoFetch
    /\ loading' = FALSE
    /\ toast' = <<Toast("Errore", "Impossibile caricare i dati. Riprova più tardi.", 0,
                        "destructive")>>
    /\ UNCHANGED <<serviceVars, results, lists, runs, coverageCheckInProgress,
                   isApiKeyValid, firecrawlApiKey, formVars, task>>

\* line 1264
RunStartedText ==
    "Verifica della copertura Open Fiber in corso per n attività. Questo potrebbe richiedere alcuni minuti."

\* the map service answers with the array `businesses`: lines 1147-1158 and
\* 1166-1168, and checkFiberCoverageForResults up to its loop, lines 1258-1267
FetchResponds(businesses) ==
    /\ Quiet
    /\ fetch.pending
    /\ fetch' = NoFetch
    /\ loading' = FALSE
    /\ lists' = Append(lists, [i \in 1..Len(businesses) |->
                                  [tags |-> businesses[i], fiberCoverage |-> ""]])
    /\ results' = Len(lists')
    /\ runs' = Append(runs, [state |-> IF Len(businesses) > 0 /\ fetch.isApiKeyValid
                                       THEN "running" ELSE "idle",
                             log |-> <<>>])
    /\ toast' = <<Toast("Ricerca completata", "Trovate n attività", Len(businesses),
                        "default")>>
               \o IF Len(businesses) > 0 /\ fetch.isApiKeyValid
                  THEN <<Toast("Verifica copertura fibra", RunStartedText,
                               Len(businesses), "default")>>
                  ELSE <<>>
    /\ IF Len(businesses) > 0 /\ fetch.isApiKeyValid
       THEN /\ \E c \in Callers :
                   /\ FreeCaller(c)
                   /\ task' = [task EXCEPT ![c] =
                                  [NoTask EXCEPT !.pc = "scan", !.list = Len(lists'),
                                                 !.i = 1,
                                                 !.isApiKeyValid = fetch.isApiKeyValid]]
            /\ coverageCheckInProgress' = TRUE
       ELSE UNCHANGED <<task, coverageCheckInProgress>>
    /\ UNCHANGED <<serviceVars, isApiKeyValid, firecrawlApiKey, formVars>>

\* the value checkOpenFiberCoverage returns for a result of the service,
\* lines 1234-1250; "" stands for null and for the field being absent
CoverageOfResult(result) ==
    IF result.success /\ result.coverage # "" THEN result.coverage ELSE CHECK_ERROR

\* the status written to the business but never published
SetCoverageUnpublished(list, i, coverage) ==
    /\ lists' = [lists EXCEPT ![list][i].fiberCoverage = coverage]
    /\ UNCHANGED <<results, runs>>

\* lines 1240-1247: the failure is one the user is told to wait for
RateLimitNotice(result) ==
    /\ ~(result.success /\ result.coverage # "")
    /\ includes(result.error, <<"Rate limit">>) \/ includes(result.error, <<"429">>)

\* business.fiberCoverage = coverage (or delete, for ""), then
\* setResults([...updatedResults])
SetCoverage(list, i, coverage) ==
    /\ lists' = [lists EXCEPT ![list][i].fiberCoverage = coverage]
    /\ results' = list
    /\ runs' = [runs EXCEPT ![list].log = Append(@, <<i, coverage>>)]

\* one pass of the loop of checkFiberCoverageForResults up to its await of the
\* lookup, lines 1267-1282 and 1224-1232
RunScan(c) ==
    /\ task[c].pc = "scan"
    /\ LET list == task[c].list
           i == task[c].i
       IN
       IF i > Len(lists[list])
       THEN /\ task' = [task EXCEPT ![c].pc = "finish"]
            /\ UNCHANGED <<serviceVars, results, lists, runs>>
       ELSE \E tags \in {lists[list][i].tags} :
            \E address \in {formatAddress(tags)} :
            \E city \in {tags.city} :
            IF address = <<>> \/ Len(trim(address)) < 3 \/ city = <<>>
            THEN /\ task' = [task EXCEPT ![c].i = i + 1]
                 /\ UNCHANGED <<serviceVars, results, lists, runs>>
            ELSE /\ SetCoverage(list, i, CHECKING)
                 /\ IF ~task[c].isApiKeyValid
                    THEN /\ task' = [task EXCEPT ![c].pc = "resume"]
                         /\ UNCHANGED serviceVars
                    ELSE /\ scrapeOpenFiberCoverage(c, city, address)
                         /\ task' = [task EXCEPT ![c].pc =
                                        IF call'[c].pc = "idle" THEN "resume"
                                        ELSE "lookup"]
    /\ UNCHANGED <<loading, coverageCheckInProgress, isApiKeyValid, firecrawlApiKey,
                   fetch, toast, formVars>>

\* a lookup that failed ends the loop: the rest of the list is never looked up
RunResumeAborting(c) ==
    /\ task[c].pc = "resume"
    /\ LET list == task[c].list
           i == task[c].i
           failed == task[c].isApiKeyValid /\ CoverageOfResult(ret.result) = CHECK_ERROR
       IN
       /\ SetCoverage(list, i, IF ~task[c].isApiKeyValid THEN ""
                                ELSE CoverageOfResult(ret.result))
       /\ task' = IF failed
                  THEN [task EXCEPT ![c] = NoTask]
                  ELSE IF i < Len(lists[list])
                  THEN [task EXCEPT ![c].pc = "pause",
                                    ![c].wakeAt = now + COVERAGE_PAUSE]
                  ELSE [task EXCEPT ![c].pc = "finish"]
    /\ UNCHANGED <<serviceVars, loading, coverageCheckInProgress, isApiKeyValid,
                   firecrawlApiKey, fetch, toast, formVars>>

\* the lookup has returned: lines 1283-1295; the isApiKeyValid of
\* checkOpenFiberCoverage is the one the search captured
RunResume(c) ==
    /\ task[c].pc = "resume"
    /\ LET list == task[c].list
           i == task[c].i
       IN
       /\ SetCoverage(list, i, IF ~task[c].isApiKeyValid THEN ""
                                ELSE CoverageOfResult(ret.result))
       /\ task' = IF i < Len(lists[list])
                  THEN [task EXCEPT ![c].pc = "pause",
                                    ![c].wakeAt = now + COVERAGE_PAUSE]
                  ELSE [task EXCEPT ![c].pc = "finish"]
    /\ IF task[c].isApiKeyValid /\ RateLimitNotice(ret.result)
       THEN toast' = <<Toast("Troppi tentativi",
                             "Attendi qualche secondo prima di verificare nuovamente la copertura",
                             0, "destructive")>>
       ELSE UNCHANGED toast
    /\ UNCHANGED <<serviceVars, loading, coverageCheckInProgress, isApiKeyValid,
                   firecrawlApiKey, fetch, formVars>>

\* after the pause the loop starts over from the first business
PauseElapsedRestart(c) ==
    /\ Quiet
    /\ task[c].pc = "pause"
    /\ now >= task[c].wakeAt
    /\ task' = [task EXCEPT ![c].pc = "scan", ![c].i = 1]
    /\ UNCHANGED <<serviceVars, results, lists, runs, loading, coverageCheckInProgress,
                   isApiKeyValid, firecrawlApiKey, fetch, toast, formVars>>

\* the pause between two businesses is over: the loop goes on with the next one
PauseElapsed(c) ==
    /\ Quiet
    /\ task[c].pc = "pause"
    /\ now >= task[c].wakeAt
    /\ task' = [task EXCEPT ![c].pc = "scan", ![c].i = @ + 1]
    /\ UNCHANGED <<serviceVars, results, lists, runs, loading, coverageCheckInProgress,
                   isApiKeyValid, firecrawlApiKey, fetch, toast, formVars>>

\* every business with an annotation counted, the failed ones included
successfulChecksAnnotated(updatedResults) ==
    Cardinality({i \in DOMAIN updatedResults : updatedResults[i].fiberCoverage # ""})

\* lines 1300-1302: the businesses with a definitive classification
successfulChecks(updatedResults) ==
    Cardinality({i \in DOMAIN updatedResults :
                    updatedResults[i].fiberCoverage \notin {"", CHECKING, CHECK_ERROR}})

\* the loop is over: lines 1298-1307
RunFinish(c) ==
    /\ task[c].pc = "finish"
    /\ coverageCheckInProgress' = FALSE
    /\ runs' = [runs EXCEPT ![task[c].list].state = "completed"]
    /\ task' = [task EXCEPT ![c] = NoTask]
    /\ toast' = <<Toast("Verifica completata", "Copertura verificata per n attività",
                        successfulChecks(lists[task[c].list]), "default")>>
    /\ UNCHANGED <<serviceVars, results, lists, loading, isApiKeyValid,
                   firecrawlApiKey, fetch, formVars>>

\* handleApiKeyTest up to its await, lines 1196-1206
ClickTest(c) ==
    /\ Quiet
    /\ IF firecrawlApiKey = ""
       THEN /\ c = 1
            /\ toast' = <<Toast("Errore", "Inserisci una chiave API valida", 0,
                                "destructive")>>
            /\ UNCHANGED <<serviceVars, task>>
       ELSE /\ FreeCaller(c)
            /\ started < MaxCalls
            /\ testApiKey(c, firecrawlApiKey)
            /\ task' = [task EXCEPT ![c] =
                           [NoTask EXCEPT !.pc = "test", !.apiKey = firecrawlApiKey]]
            /\ UNCHANGED toast
    /\ UNCHANGED <<results, lists, runs, loading, coverageCheckInProgress, isApiKeyValid,
                   firecrawlApiKey, fetch, formVars>>

\* handleApiKeyTest after the test, lines 1207-1221
TestResume(c) ==
    /\ task[c].pc = "testResume"
    /\ task' = [task EXCEPT ![c] = NoTask]
    /\ IF ret.result.success
       THEN /\ saveApiKey(task[c].apiKey)
            /\ isApiKeyValid' = TRUE
            /\ toast' = <<Toast("Successo", "Chiave API validata e salvata", 0,
                                "default")>>
       ELSE /\ UNCHANGED <<serviceVars, isApiKeyValid>>
            /\ toast' = <<Toast("Errore", "Chiave API non valida", 0, "destructive")>>
    /\ UNCHANGED <<results, lists, runs, loading, coverageCheckInProgress, firecrawlApiKey,
                   fetch, formVars>>

\* the timer of the rate limiter fires for a lookup of the view
LookupTimerFires(c) ==
    /\ Quiet
    /\ DelayElapsed(c)
    /\ task' = [task EXCEPT ![c].pc =
                   IF call'[c].pc = "idle" THEN "resume" ELSE @]
    /\ UNCHANGED <<results, lists, runs, loading, coverageCheckInProgress, isApiKeyValid,
                   firecrawlApiKey, fetch, toast, formVars>>

\* the scraping backend answers a request of the view
LookupAnswered(c) ==
    /\ Quiet
    /\ call[c].pc = "inflight"
    /\ \E resp \in ViewResponses : ResponseArrives(c, resp)
    /\ task' = [task EXCEPT ![c].pc =
                   IF @ = "test" THEN "testResume" ELSE "resume"]
    /\ UNCHANGED <<results, lists, runs, loading, coverageCheckInProgress, isApiKeyValid,
                   firecrawlApiKey, fetch, toast, formVars>>

ViewTimePasses ==
    /\ Quiet
    /\ now + Tick <= StartTime + MaxViewTicks * Tick
    /\ Advance
    /\ UNCHANGED viewVars

NextView ==
    \/ \E text \in KeyTexts : TypeApiKey(text)
    \/ ClickSearch
    \/ FetchFails
    \/ \E businesses \in BusinessLists : FetchResponds(businesses)
    \/ \E c \in Callers : RunScan(c)
    \/ \E c \in Callers : RunResume(c)
    \/ \E c \in Callers : PauseElapsed(c)
    \/ \E c \in Callers : RunFinish(c)
    \/ \E c \in Callers : ClickTest(c)
    \/ \E c \in Callers : TestResume(c)
    \/ \E c \in Callers : LookupTimerFires(c)
    \/ \E c \in Callers : LookupAnswered(c)
    \/ ViewTimePasses

SpecView == Init /\ [][NextView]_vars

\* C2: at most one request to the scraping backend is in flight at any moment.
AtMostOneInFlight == Cardinality(InFlight) <= 1

----------------------------------------------------------------------------
(* Failures are not cached *)

\* a step in which a classify call returns to its caller, at once or after the
\* backend's answer
ClassifyReturns ==
    /\ ret'.op = "classify"
    /\ \/ \E c \in Callers :
              /\ call[c].pc # "idle" /\ call[c].op = "classify"
              /\ call'[c].pc = "idle"
       \/ started' = started + 1 /\ call' = call

\* a step in which caller c calls classify(city, address) and the call goes on
\* to the network: it is dispatched or waits for the rate limiter
IssuesRequest(c) == call[c].pc = "idle" /\ call'[c].pc \in {"waiting", "inflight"}

\* the call that returned last was a failed classify of this key
LastFailedFor(key) == ret.op = "classify" /\ ~ret.result.success /\ ret.key = key

\* C11 as claimed: a classify call that ends in a non-success outcome leaves the
\* cache unchanged, and the next classify call for the same key issues a fresh
\* network request.
FailedCallAlwaysRetriedFresh ==
    [][/\ (ClassifyReturns /\ ~ret'.result.success) => coverageCache' = coverageCache
       /\ \A c \in Callers, city \in SampleCities, address \in SampleAddresses :
              (/\ scrapeOpenFiberCoverage(c, city, address)
               /\ LastFailedFor(CacheKeyOf(address, city)))
              => IssuesRequest(c)]_vars

\* C11 as amended: a classify call that ends in a non-success outcome leaves the
\* cache unchanged; the next classify call for the same key, when a credential
\* is stored, the input is valid and no successful scrape has cached the key,
\* issues a fresh network request.
FailureNeverCached ==
    [][/\ (ClassifyReturns /\ ~ret'.result.success) => coverageCache' = coverageCache
       /\ \A c \in Callers, city \in SampleCities, address \in SampleAddresses :
              (/\ scrapeOpenFiberCoverage(c, city, address)
               /\ LastFailedFor(CacheKeyOf(address, city))
               /\ Truthy(localStorage)
               /\ validateAddress(address, city)
               /\ CacheKeyOf(address, city) \notin DOMAIN coverageCache)
              => IssuesRequest(c)]_vars

\* a scrape was refused with 429, nothing was cached, and the retry for the
\* same key is on its way to the backend
FailedScrapeRetried ==
    /\ ret.op = "classify"
    /\ ret.result = Failure(MSG_RATE_LIMIT_RESPONSE)
    /\ coverageCache = <<>>
    /\ \E c \in Callers :
           /\ call[c].pc \in {"waiting", "inflight"}
           /\ call[c].op = "classify"
           /\ call[c].key = ret.key

----------------------------------------------------------------------------
(* The credential operations, under any sequence of save, clear and get *)

CredentialKeys == {"k1", "k2"}

\* a caller reads the credential: getApiKey() returns, lines 33-35
CallGetApiKey ==
    /\ ret' = [NoReturn EXCEPT !.op = "get", !.value = getApiKey]
    /\ UNCHANGED <<localStorage, firecrawlApp, lastRequestTime, coverageCache, now,
                   call, dispatchLog, successes, started>>
    /\ UNCHANGED viewVars

SaveAnyKey == \E k \in CredentialKeys : saveApiKey(k) /\ UNCHANGED viewVars

NextCredential ==
    \/ SaveAnyKey
    \/ CallClearApiKey
    \/ CallGetApiKey
    \/ ClassifyOnce
    \/ BackendAnswers

SpecCredential == Init /\ [][NextCredential]_vars

\* C12: after save(k) get() returns k and a live client handle exists; after
\* clear() get() returns null and the handle is null; get() returns what is
\* stored and changes neither storage nor the handle; and the stored credential
\* changes by save and clear only, so this holds after any sequence of calls.
CredentialLaws ==
    [][/\ \A k \in CredentialKeys :
              saveApiKey(k) => getApiKey' = k /\ firecrawlApp' = k
       /\ clearApiKey => getApiKey' = Null /\ firecrawlApp' = Null
       /\ (ret'.op = "get" /\ ret' # ret) =>
              /\ ret'.value = getApiKey
              /\ UNCHANGED <<localStorage, firecrawlApp>>
       /\ localStorage' # localStorage =>
              \/ \E k \in CredentialKeys : saveApiKey(k)
              \/ clearApiKey]_vars

\* get() has returned k2 after save(k2) replaced the credential the page was
\* loaded with
SavedKeyRead ==
    /\ ret.op = "get"
    /\ ret.value = "k2"
    /\ localStorage = "k2"
    /\ firecrawlApp = "k2"
    /\ started = 1

----------------------------------------------------------------------------
(* The enrichment run *)

TerminalStatuses == {"FTTH", "FWA", "Non coperto", CHECK_ERROR}

\* a step in which the run of caller c calls the coverage lookup for its item
LookupStarts(c) == task[c].pc = "scan" /\ started' = started + 1

\* the updates a run has published go up the list
LogInOrder(log) ==
    \A m, n \in DOMAIN log : m < n => log[m][1] <= log[n][1]

\* item i was processed: its lookup has returned, and its terminal status is
\* written to the business and was the last update published for it
Settled(k, i) ==
    LET cov == lists[k][i].fiberCoverage
        log == runs[k].log
        mine == {n \in DOMAIN log : log[n][1] = i}
    IN
    /\ cov \in TerminalStatuses
    /\ mine # {}
    /\ \A n \in mine : (\A m \in mine : m <= n) => log[n] = <<i, cov>>

\* C13: within one enrichment run the lookups are issued in list order, and the
\* lookup for item j starts only when no lookup of the run is outstanding and
\* every earlier item is either skipped or has its terminal status written and
\* published.
SequentialLookups ==
    /\ [](\A k \in DOMAIN runs : LogInOrder(runs[k].log))
    /\ [][\A c \in Callers :
              LookupStarts(c) =>
                  LET k == task[c].list
                      j == task[c].i
                  IN
                  /\ call[c].pc = "idle"
                  /\ \A n \in DOMAIN runs[k].log : runs[k].log[n][1] < j
                  /\ \A i \in 1..(j - 1) :
                         lists[k][i].fiberCoverage = "" \/ Settled(k, i)
                  /\ runs'[k].log = Append(runs[k].log, <<j, CHECKING>>)
                  /\ \/ call'[c].pc # "idle"
                        /\ call'[c].address = formatAddress(lists[k][j].tags)
                     \/ call'[c].pc = "idle"
                        /\ ret'.address = formatAddress(lists[k][j].tags)]_vars

\* the lookup of the second business is awaiting the backend after the lookup
\* of the first one failed
SecondLookupInFlight ==
    \E c \in Callers :
        /\ task[c].pc = "lookup"
        /\ task[c].i = 2
        /\ call[c].pc = "inflight"
        /\ lists[task[c].list][1].fiberCoverage = CHECK_ERROR

\* the businesses the driver looks up: those it does not skip
NeedsLookup(tags) ==
    LET address == formatAddress(tags) IN
    address # <<>> /\ Len(trim(address)) >= 3 /\ tags.city # <<>>

LookedUp(k) ==
    SelectSeq([i \in 1..Len(lists[k]) |-> i],
              LAMBDA i : NeedsLookup(lists[k][i].tags))

\* the log is made of pairs, for the businesses of `items` in order: the
\* transient status, then a terminal status
UpdatesFor(log, items) ==
    /\ Len(log) <= 2 * Len(items)
    /\ \A n \in DOMAIN log :
           /\ log[n][1] = items[(n + 1) \div 2]
           /\ n % 2 = 1 => log[n][2] = CHECKING
           /\ n % 2 = 0 => log[n][2] \in TerminalStatuses

\* C14 as claimed: the enrichment run of a search that returned N businesses
\* publishes exactly N status updates, one per business in list order, each the
\* transient 'checking' status followed by a terminal status.
OneUpdatePerBusiness ==
    \A k \in DOMAIN runs :
        /\ UpdatesFor(runs[k].log, [i \in 1..Len(lists[k]) |-> i])
        /\ runs[k].state = "completed" => Len(runs[k].log) = 2 * Len(lists[k])

\* C14 as amended: the run publishes exactly one status update for every
\* business it does not skip (formatted address of at least 3 characters and a
\* city), in list order, each the transient status followed by a terminal
\* status; skipped businesses get no update.
OneUpdatePerLookup ==
    \A k \in DOMAIN runs :
        /\ UpdatesFor(runs[k].log, LookedUp(k))
        /\ runs[k].state = "completed" =>
               /\ Len(runs[k].log) = 2 * Len(LookedUp(k))
               /\ \A i \in 1..Len(lists[k]) :
                      IF NeedsLookup(lists[k][i].tags)
                      THEN Settled(k, i)
                      ELSE lists[k][i].fiberCoverage = ""

\* a run over two businesses, the first without address, has completed with
\* the one update of the second
RunCompletedWithSkip ==
    \E k \in DOMAIN runs :
        /\ runs[k].state = "completed"
        /\ Len(lists[k]) = 2
        /\ ~NeedsLookup(lists[k][1].tags)
        /\ runs[k].log = <<<<2, CHECKING>>, <<2, "FTTH">>>>

----------------------------------------------------------------------------
(* A search that fails *)

ErrorToast ==
    <<Toast("Errore", "Impossibile caricare i dati. Riprova più tardi.", 0,
            "destructive")>>

\* a step that ends the wait for the map service without announcing results
SearchEndsWithoutResults ==
    /\ fetch.pending
    /\ ~fetch'.pending
    /\ ~(toast' # <<>> /\ toast'[1].title = "Ricerca completata")

\* C15: when the map service's response is not successful the search shows the
\* error notification, the published result list is what it was before the
\* search, and no enrichment run is started.
FailedSearchLeavesResults ==
    [][SearchEndsWithoutResults =>
          /\ toast' = ErrorToast
          /\ results' = results
          /\ lists' = lists
          /\ runs' = runs
          /\ task' = task
          /\ coverageCheckInProgress' = coverageCheckInProgress
          /\ started' = started]_vars

\* a search has failed while the list of an earlier search is published
FailedSearchAfterResults ==
    /\ toast = ErrorToast
    /\ results # 0
    /\ lists[results] # <<>>
    /\ ~fetch.pending

----------------------------------------------------------------------------
(* The search form *)

Categories == {"ricettive", "commerciali", "industriali"}

\* what the user can type into the height field
HeightTexts ==
    { <<"3", "0">>, <<"2", "5">>, <<"1", "0", "0">>, <<"0">>, <<"-", "5">>, <<"x">> }

\* what the user can type into the radius field
RadiusTexts == { <<>>, <<"5", "0", "0">>, <<"0">>, <<"x">>, <<"7", "k", "m">> }

\* the elements arrays the map service answers with while the form is studied
FormBusinessLists == { <<Tags(<<"a", "a">>, <<"1">>, <<>>, <<"b", "b">>)>> }

\* the view of a user without a stored credential
InitSearch == Init /\ localStorage = Null

NextSearch ==
    \/ \E category \in Categories : ToggleCategory(category)
    \/ \E h \in HeightTexts : SetHeight(h)
    \/ \E text \in RadiusTexts : SetRadiusManual(text)
    \/ ClickSearch
    \/ FetchFails
    \/ \E businesses \in FormBusinessLists : FetchResponds(businesses)

SpecSearch == InitSearch /\ [][NextSearch]_vars

NoCategoryEnabled == \A category \in Categories : ~selectedCategories[category]

ValidationToast ==
    <<Toast("Nessuna categoria selezionata",
            "Seleziona almeno una categoria di attività", 0, "destructive")>>

\* C16: with no category enabled the query builder yields no clause, and a
\* search aborts with the validation notification before any network call: no
\* request to the map service, the result list unchanged, the loading flag
\* false.
NoCategoryAborts ==
    /\ [](NoCategoryEnabled <=>
              QueryParts(selectedCategories, SearchRadius(radiusManual, autoRadius),
                         lat, lon) = <<>>)
    /\ [][(ClickSearch /\ NoCategoryEnabled) =>
             /\ toast' = ValidationToast
             /\ ~fetch'.pending
             /\ ~loading'
             /\ results' = results
             /\ lists' = lists
             /\ started' = started]_vars

\* a search has been refused for lack of categories, after an earlier search
SearchRefused ==
    /\ NoCategoryEnabled
    /\ toast = ValidationToast
    /\ results # 0
    /\ ~loading

----------------------------------------------------------------------------
(* A run that outlives its search *)

\* C17: once a new search has replaced the published result set, the records
\* of the earlier search are never published again: the published list is
\* always the list of the latest completed search.
PreviousSearchDiscarded == results = Len(lists)

----------------------------------------------------------------------------
(* The radius of a search *)

\* a step in which a search sends its query to the map service
SearchSends == ClickSearch /\ fetch'.pending

\* C18: at the time of a search, an empty manual radius field means the radius
\* derived from the antenna height is used, and a field that holds a number
\* means that number is the radius used.
ManualRadiusTakesPrecedence ==
    [][SearchSends =>
          /\ radiusManual = <<>> => fetch'.r = autoRadius
          /\ parseInt(radiusManual).kind = "int" => fetch'.r = parseInt(radiusManual)]_vars

----------------------------------------------------------------------------
(* The address of a business *)

\* a tag as it appears in the address: runs of white space collapsed, ends
\* trimmed
Normalized(text) == trim(CollapseWhitespace(text, FALSE))

\* a tag that is present, without white space to collapse or trim
Clean(text) == text # <<>> /\ text = Normalized(text)

\* C19: the address of every business of a search is the empty string when none
\* of its four tags is present, and "<street> <number>, <postcode> <city>" when
\* all four are present (here: without white space to collapse or trim).
AddressFormatted ==
    \A k \in DOMAIN lists : \A i \in DOMAIN lists[k] :
        LET tags == lists[k][i].tags IN
        /\ (tags.street = <<>> /\ tags.housenumber = <<>> /\ tags.postcode = <<>>
              /\ tags.city = <<>>)
            => formatAddress(tags) = <<>>
        /\ (Clean(tags.street) /\ Clean(tags.housenumber) /\ Clean(tags.postcode)
              /\ Clean(tags.city))
            => formatAddress(tags) =
                   tags.street \o <<" ">> \o tags.housenumber \o <<",", " ">>
                       \o tags.postcode \o <<" ">> \o tags.city

----------------------------------------------------------------------------
(* The radius estimate *)

\* x is the non-negative number whose square is sq
IsRootOf(x, sq) ==
    \/ x.kind = "int" /\ x.n >= 0 /\ x.n * x.n = sq
    \/ x.kind = "root" /\ x.sq = sq

----------------------------------------------------------------------------
(* Enrichment runs over every kind of business *)

\* businesses with a full address, without address tags, and with a city of one
\* character
RunBusinesses ==
    { Tags(<<"a", "a">>, <<"1">>, <<>>, <<"b", "b">>),
      Tags(<<>>, <<>>, <<>>, <<>>),
      Tags(<<"a", "a">>, <<"1">>, <<>>, <<"b">>) }

RunBusinessLists == UNION {[1..n -> RunBusinesses] : n \in 0..MaxBusinesses}

\* what the scraping backend answers to a lookup: a page that names FTTH, a page
\* that names no technology, a page without content, a failure, a rate-limit
\* failure, a thrown error
RunResponses ==
    { OkResponse(<<"ftth">>, <<>>, <<>>),
      OkResponse(<<"x">>, <<>>, <<>>),
      OkResponse(<<>>, <<>>, <<>>),
      FailResponse(<<"x">>),
      FailResponse(<<"Status code: ", "429", ". Error: ", "Rate limit", " exceeded">>),
      ThrowResponse(TRUE, <<"x">>) }

\* the view of a user whose credential is stored
InitRun == Init /\ localStorage \in ApiKeys

\* the scraping backend answers the lookup of a run
RunLookupAnswered(c) ==
    /\ Quiet
    /\ call[c].pc = "inflight"
    /\ \E resp \in RunResponses : ResponseArrives(c, resp)
    /\ task' = [task EXCEPT ![c].pc = "resume"]
    /\ UNCHANGED <<results, lists, runs, loading, coverageCheckInProgress, isApiKeyValid,
                   firecrawlApiKey, fetch, toast, formVars>>

\* a timer of the page is pending: the pause of a run or the delay of a request
TimerPending ==
    \E c \in Callers :
        \/ task[c].pc = "pause" /\ now < task[c].wakeAt
        \/ call[c].pc = "waiting" /\ now < call[c].wakeAt

\* the clock moves towards a pending timer
RunTimePasses ==
    /\ Quiet
    /\ TimerPending
    /\ Advance
    /\ UNCHANGED viewVars

NextRun ==
    \/ ClickSearch
    \/ \E businesses \in RunBusinessLists : FetchResponds(businesses)
    \/ \E c \in Callers : RunScan(c)
    \/ \E c \in Callers : RunResume(c)
    \/ \E c \in Callers : PauseElapsed(c)
    \/ \E c \in Callers : RunFinish(c)
    \/ \E c \in Callers : LookupTimerFires(c)
    \/ \E c \in Callers : RunLookupAnswered(c)
    \/ RunTimePasses

SpecRun == InitRun /\ [][NextRun]_vars

\* the formatted address is empty or shorter than 3 characters, or the city is
\* empty or shorter than 2 characters
TooShortToLookUp(tags) ==
    LET address == formatAddress(tags) IN
    \/ address = <<>>
    \/ Len(address) < 3
    \/ Len(trim(tags.city)) < 2

\* C21: for a business whose formatted address is empty or shorter than 3
\* characters, or whose city is empty or shorter than 2 characters, no coverage
\* lookup is sent to the backend, and the record carries no coverage annotation
\* when the run has completed.
ShortAddressesSkipped ==
    /\ \A c \in Callers :
           (call[c].pc # "idle" /\ call[c].op = "classify") =>
               /\ Len(call[c].address) >= 3
               /\ Len(trim(call[c].city)) >= 2
    /\ \A k \in DOMAIN runs :
           runs[k].state = "completed" =>
               \A i \in DOMAIN lists[k] :
                   TooShortToLookUp(lists[k][i].tags) =>
                       lists[k][i].fiberCoverage = ""

----------------------------------------------------------------------------
(* A failed lookup does not stop the run *)

\* a step of a run, of the rate limiter's timer, of the backend answering a
\* lookup, or of the clock towards a pending timer
RunProgress ==
    \/ \E c \in Callers : RunScan(c)
    \/ \E c \in Callers : RunResume(c)
    \/ \E c \in Callers : PauseElapsed(c)
    \/ \E c \in Callers : RunFinish(c)
    \/ \E c \in Callers : LookupTimerFires(c)
    \/ \E c \in Callers : RunLookupAnswered(c)
    \/ RunTimePasses

\* the event loop runs the continuations that are ready, pending timers fire as
\* the clock moves, and the backend answers or fails every request
SpecRunFair == SpecRun /\ WF_vars(RunProgress)

\* the lookup whose result the run of caller c is about to record has failed
LookupFailed(c) ==
    /\ task[c].pc = "resume"
    /\ ~(ret.result.success /\ ret.result.coverage # "")

----------------------------------------------------------------------------
(* The summary of a run *)

\* the records of a list with a definitive classification
Definitive(list) ==
    {i \in DOMAIN list : list[i].fiberCoverage \in {"FTTH", "FWA", "Non coperto"}}

\* C23: when an enrichment run completes, the count of its summary is the number
\* of records of its list whose final status is FTTH, FWA or Non coperto; records
\* with the transient status, with the error status or without annotation are
\* not counted.
SummaryCountsDefinitive ==
    [][\A k \in DOMAIN runs :
          (runs[k].state = "running" /\ runs'[k].state = "completed") =>
              /\ toast' = <<Toast("Verifica completata",
                                  "Copertura verificata per n attività",
                                  Cardinality(Definitive(lists'[k])), "default")>>
              /\ \A i \in DOMAIN lists'[k] :
                     lists'[k][i].fiberCoverage # CHECKING]_vars

\* the only run has completed over a business that failed and one classified
\* Non coperto, and its summary counts one
SummaryOfMixedRun ==
    /\ Len(runs) = 1
    /\ runs[1].state = "completed"
    /\ Len(lists[1]) = 2
    /\ lists[1][1].fiberCoverage = CHECK_ERROR
    /\ lists[1][2].fiberCoverage = "Non coperto"
    /\ toast # <<>>
    /\ toast[1].title = "Verifica completata"
    /\ toast[1].n = 1

----------------------------------------------------------------------------
(* The query of a search *)

CoordinateAlphabet == {"1", ",", "x"}

\* what the user can leave in the coordinates field
CoordinateTexts == UNION {[1..n -> CoordinateAlphabet] : n \in 0..MaxCoordLen}

NextQuery ==
    \/ \E category \in Categories : ToggleCategory(category)
    \/ \E text \in CoordinateTexts : SetCoordinates(text)
    \/ ClickSearch
    \/ FetchFails
    \/ \E businesses \in FormBusinessLists : FetchResponds(businesses)

SpecQuery == InitSearch /\ [][NextQuery]_vars

CategorySelections == [ricettive : BOOLEAN, commerciali : BOOLEAN, industriali : BOOLEAN]

\* the tag and value of the clauses of a selection, in the fixed order
ClausesOf(categories) ==
    (IF categories.ricettive
     THEN << <<"tourism", "hotel">>, <<"tourism", "guest_house">>,
             <<"tourism", "hostel">> >>
     ELSE <<>>)
    \o (IF categories.commerciali
        THEN << <<"amenity", "restaurant">>, <<"shop", "">>, <<"office", "">> >>
        ELSE <<>>)
    \o (IF categories.industriali THEN << <<"landuse", "industrial">> >> ELSE <<>>)

\* the clauses are those of the selection, each around the one centre and radius
ClausesAre(clauses, categories, r, centerLat, centerLon) ==
    /\ Len(clauses) = Len(ClausesOf(categories))
    /\ \A n \in DOMAIN clauses :
           /\ <<clauses[n].tag, clauses[n].value>> = ClausesOf(categories)[n]
           /\ clauses[n].r = r
           /\ clauses[n].lat = centerLat
           /\ clauses[n].lon = centerLon

\* C24: for every subset of enabled categories the clause sequence is the
\* lodging clauses (hotel, guest_house, hostel), then the commercial clauses
\* (restaurant, any shop, any office), then the industrial clause, each only if
\* its category is enabled, and every clause carries the same radius and centre;
\* the query a search sends is built so from the form.
ClausesInCategoryOrder ==
    /\ [](\A categories \in CategorySelections :
              ClausesAre(QueryParts(categories, SearchRadius(radiusManual, autoRadius),
                                    lat, lon),
                         categories, SearchRadius(radiusManual, autoRadius), lat, lon))
    /\ [][SearchSends =>
             ClausesAre(fetch'.clauses, selectedCategories,
                        SearchRadius(radiusManual, autoRadius), lat, lon)]_vars

\* a query with the seven clauses of the three categories is awaiting its answer,
\* around a centre the user has typed
FullQuerySent ==
    /\ fetch.pending
    /\ Len(fetch.clauses) = 7
    /\ fetch.clauses[1].lat = <<"1">>
    /\ fetch.clauses[7].lon = <<"1">>

----------------------------------------------------------------------------
(* The centre of a search *)

\* the text is not empty and reads as a number
NumericText(text) == text # <<>> /\ ~NumberIsNaN(text)

\* C28: after any sequence of edits of the coordinates field the stored
\* latitude and longitude are both non-empty numeric texts.
CoordinatesStayNumeric == NumericText(lat) /\ NumericText(lon)

----------------------------------------------------------------------------
(* The cache key over addresses and cities that hold an underscore *)

\* addresses and cities that pass validateAddress, with and without '_'
KeyAddresses == {<<"a", "a", "a">>, <<"a", "a", "a", "_">>}
KeyCities == {<<"b", "b">>, <<"_", "b", "b">>}

InitCacheKey == Init /\ localStorage \in ApiKeys

ClassifyKeyed ==
    \E c \in Callers :
        /\ Begins(c)
        /\ \E city \in KeyCities, address \in KeyAddresses :
               scrapeOpenFiberCoverage(c, city, address)
        /\ UNCHANGED viewVars

NextCacheKey ==
    \/ ClassifyKeyed
    \/ TimerFires
    \/ BackendAnswers
    \/ TimePasses

SpecCacheKey == InitCacheKey /\ [][NextCacheKey]_vars

\* the (trimmed address, trimmed city) pair of a call or of a returned call
TrimmedPair(rec) == <<trim(rec.address), trim(rec.city)>>

\* C25: two classify calls whose (trimmed address, trimmed city) pairs differ
\* never share a cache entry: calls in progress or just returned that differ in
\* the pair differ in the cache key, and no call is answered from the cache
\* with the entry the call returned just before it stored for a different pair.
CacheKeyInjective ==
    /\ [](\A c, d \in Callers :
              (/\ call[c].op = "classify" /\ call[c].pc # "idle"
               /\ call[d].op = "classify" /\ call[d].pc # "idle"
               /\ TrimmedPair(call[c]) # TrimmedPair(call[d]))
                  => call[c].key # call[d].key)
    /\ [][(/\ ret.op = "classify" /\ ret.resp # NoResponse /\ ret.result.success
           /\ ret'.op = "classify" /\ ret'.resp = NoResponse /\ ret'.result.success
           /\ ret'.key = ret.key)
              => TrimmedPair(ret') = TrimmedPair(ret)]_vars

----------------------------------------------------------------------------
(* The coverage-check-in-progress flag *)

\* C26: coverageCheckInProgress is true in every state in which at least one
\* enrichment run has started and not yet completed, a second run started by
\* a new search before the first has finished included.
FlagCoversEveryRun ==
    (\E k \in DOMAIN runs : runs[k].state = "running") => coverageCheckInProgress

----------------------------------------------------------------------------
(* Searches of a user who changes the antenna height and never types a radius *)

NextHeight ==
    \/ \E category \in Categories : ToggleCategory(category)
    \/ \E h \in HeightTexts : SetHeight(h)
    \/ ClickSearch
    \/ FetchFails
    \/ \E businesses \in FormBusinessLists : FetchResponds(businesses)

SpecHeight == InitSearch /\ [][NextHeight]_vars

\* the radius derived from a height: the estimate, or the whole number of
\* metres the effect writes into the radius field for it
DerivedRadius(h) ==
    LET calculated == calculateRadioCoverage(h) IN
    {calculated} \cup {Integer(f) : f \in FloorOfEstimate(calculated)}

\* C27: when the user changes the antenna height and never types in the manual
\* radius field, the next search uses the radius derived from the new height.
SearchUsesRadiusOfHeight ==
    [][SearchSends => fetch'.r \in DerivedRadius(height)]_vars

----------------------------------------------------------------------------
(* The credential cleared while a classify call waits in the rate limiter *)

\* clearApiKey has run since caller c's classify call entered its wait
ClearedWhileWaiting(c) ==
    call[c].op = "classify" /\ call[c].pc = "waiting" /\ call[c].cleared

\* C29 as claimed: a classify call suspended in the rate limiter's wait while
\* clearApiKey is executed never sends its request: it stays in its wait until
\* it ends with the failure result.
ClearedCallNeverDispatched ==
    \A c \in Callers :
        (call[c].op = "classify" /\ call[c].cleared) => call[c].pc = "waiting"

\* C29 as amended: a classify call whose wait ends while the handle is still
\* cleared (clearApiKey ran during the wait and no key was saved since) returns
\* at once the failure result made from the TypeError, sends no request, writes
\* nothing to the cache and leaves the handle null.
ClearedCallFails ==
    [][\A c \in Callers :
           (ClearedWhileWaiting(c) /\ firecrawlApp = Null /\ call'[c].pc # "waiting")
               => /\ ret' = Returned(c, call[c], NoResponse, Failure(MSG_TYPE_ERROR))
                  /\ call'[c] = IdleCall
                  /\ firecrawlApp' = Null
                  /\ UNCHANGED <<coverageCache, dispatchLog, localStorage>>]_vars

\* a classify call has returned the TypeError's failure without any request
ClearedCallReturned ==
    /\ ret.op = "classify"
    /\ ret.resp = NoResponse
    /\ ret.result = Failure(MSG_TYPE_ERROR)
    /\ firecrawlApp = Null
    /\ ret.key \notin DOMAIN coverageCache

----------------------------------------------------------------------------
(* The shared client handle under save, clear, test and scrape operations *)

TestAnyKey ==
    \E c \in Callers :
        /\ Begins(c)
        /\ \E k \in CredentialKeys : testApiKey(c, k)
        /\ UNCHANGED viewVars

NextHandle ==
    \/ SaveAnyKey
    \/ CallClearApiKey
    \/ TestAnyKey
    \/ CallClassify
    \/ CallGoogle
    \/ CallWebsite
    \/ TimerFires
    \/ BackendAnswers
    \/ TimePasses

SpecHandle == Init /\ [][NextHandle]_vars

\* C30: after any sequence of save, clear, credential-test and scrape
\* operations, a shared client handle that is not null was constructed with the
\* key currently held in the credential storage, never with a key saved earlier
\* or merely tested.
HandleBuiltFromStoredKey == firecrawlApp # Null => firecrawlApp = localStorage

\* a key other than the stored one is being tested while the handle exists
OtherKeyTested ==
    /\ firecrawlApp # Null
    /\ \E c \in Callers :
           /\ call[c].op = "test"
           /\ call[c].pc = "inflight"
           /\ call[c].usedKey # localStorage

====
